---------------------------- MODULE Spec2Model ----------------------------
(***************************************************************************)
(* A model of the CHIP-8 interpreter core (chip8_core/src/lib.rs) and of   *)
(* the way the desktop driver (desktop/src/main.rs) calls it.              *)
(*                                                                         *)
(* The Emulator struct is a record with one field per struct field, plus   *)
(* `panic`, which records that a Rust panic has unwound out of the engine  *)
(* ("none" while the machine is alive).  Every engine function is an       *)
(* operator of the same name taking and returning that record.  Arrays are *)
(* functions on 0..N-1, integers keep their Rust width.                    *)
(***************************************************************************)
EXTENDS Integers, Sequences, FiniteSets, TLC

(* ------------------------------------------------------------------ *)
(* Program constants (lib.rs:3-11)                                     *)
(* ------------------------------------------------------------------ *)
SCREEN_WIDTH == 64
SCREEN_HEIGHT == 32
START_ADDR == 512
RAM_SIZE == 4096
REGISTER_COUNT == 16
STACK_SIZE == 16
NUM_KEYS == 16
FONTSET_SIZE == 80

FONTSET ==
    << 240, 144, 144, 144, 240,
        32,  96,  32,  32, 112,
       240,  16, 240, 128, 240,
       240,  16, 240,  16, 240,
       144, 144, 240,  16,  16,
       240, 128, 240,  16, 240,
       240, 128, 240, 144, 240,
       240,  16,  32,  64,  64,
       240, 144, 240, 144, 240,
       240, 144, 240,  16, 240,
       240, 144, 240, 144, 144,
       224, 144, 224, 144, 224,
       240, 128, 128, 128, 240,
       224, 144, 144, 144, 224,
       240, 128, 240, 128, 240,
       240, 128, 240, 128, 128 >>

U8 == 256
U16 == 65536

(* ------------------------------------------------------------------ *)
(* Bit operations on unsigned integers (Rust's &, |, ^)                *)
(* ------------------------------------------------------------------ *)
RECURSIVE BitAnd(_, _)
BitAnd(a, b) ==
    IF a = 0 \/ b = 0 THEN 0
    ELSE (a % 2) * (b % 2) + 2 * BitAnd(a \div 2, b \div 2)

RECURSIVE BitOr(_, _)
BitOr(a, b) ==
    IF a = 0 THEN b
    ELSE IF b = 0 THEN a
    ELSE (IF a % 2 = 1 \/ b % 2 = 1 THEN 1 ELSE 0) + 2 * BitOr(a \div 2, b \div 2)

RECURSIVE BitXor(_, _)
BitXor(a, b) ==
    IF a = 0 THEN b
    ELSE IF b = 0 THEN a
    ELSE ((a + b) % 2) + 2 * BitXor(a \div 2, b \div 2)

(* ------------------------------------------------------------------ *)
(* Panics.  A panic unwinds out of tick(); the driver does not catch   *)
(* it, so a machine that has panicked takes no further step.           *)
(* ------------------------------------------------------------------ *)
NoPanic == "none"
IndexPanic == "index_out_of_bounds"
OverflowPanic == "arithmetic_overflow"
UnimplementedPanic == "unimplemented"

Fail(e, kind) == [e EXCEPT !.panic = kind]

(* ------------------------------------------------------------------ *)
(* Construction and reset                                              *)
(* ------------------------------------------------------------------ *)
\* The array literals [0; RAM_SIZE], [false; SCREEN_WIDTH * SCREEN_HEIGHT], ...
ZeroRam    == [a \in 0 .. RAM_SIZE - 1 |-> 0]
DarkScreen == [p \in 0 .. SCREEN_WIDTH * SCREEN_HEIGHT - 1 |-> FALSE]
ZeroRegs   == [r \in 0 .. REGISTER_COUNT - 1 |-> 0]
ZeroStack  == [s \in 0 .. STACK_SIZE - 1 |-> 0]
NoKeys     == [k \in 0 .. NUM_KEYS - 1 |-> FALSE]

default ==
    [ pc          |-> START_ADDR,
      ram         |-> ZeroRam,
      screen      |-> DarkScreen,
      v_reg       |-> ZeroRegs,
      i_reg       |-> 0,
      stack_ptr   |-> 0,
      stack       |-> ZeroStack,
      keys        |-> NoKeys,
      delay_timer |-> 0,
      sound_timer |-> 0,
      panic       |-> NoPanic ]

\* ram[..FONTSET_SIZE].copy_from_slice(&FONTSET)
copy_fontset(ram) ==
    [a \in 0 .. FONTSET_SIZE - 1 |-> FONTSET[a + 1]] @@ ram

new == [default EXCEPT !.ram = copy_fontset(default.ram)]

\* reset that forgets the keypad.
reset_keeps_keys(e) ==
    [new EXCEPT !.keys = e.keys]

reset(e) ==
    LET e1  == [e   EXCEPT !.pc = START_ADDR]
        e2  == [e1  EXCEPT !.ram = ZeroRam]
        e3  == [e2  EXCEPT !.screen = DarkScreen]
        e4  == [e3  EXCEPT !.v_reg = ZeroRegs]
        e5  == [e4  EXCEPT !.i_reg = 0]
        e6  == [e5  EXCEPT !.stack_ptr = 0]
        e7  == [e6  EXCEPT !.stack = ZeroStack]
        e8  == [e7  EXCEPT !.keys = NoKeys]
        e9  == [e8  EXCEPT !.delay_timer = 0]
        e10 == [e9  EXCEPT !.sound_timer = 0]
    IN  [e10 EXCEPT !.ram = copy_fontset(e10.ram)]

(* ------------------------------------------------------------------ *)
(* Timers.  The body of `if self.sound_timer == 1` is only the comment *)
(* BEEP: the function returns () and writes no field but the timers,   *)
(* so the number of tone signals it raises is 0.                       *)
(* ------------------------------------------------------------------ *)
\* tick_timers that decrements without testing for zero (wrapping).
tick_timers_wrapping(e) ==
    [e EXCEPT !.delay_timer = (e.delay_timer - 1) % U8,
              !.sound_timer = (e.sound_timer - 1) % U8]

tick_timers(e) ==
    LET e1 == IF e.delay_timer > 0
              THEN [e EXCEPT !.delay_timer = e.delay_timer - 1]
              ELSE e
    IN  IF e1.sound_timer > 0
        THEN [e1 EXCEPT !.sound_timer = e1.sound_timer - 1]
        ELSE e1

tick_timers_signals(e) == 0

(* ------------------------------------------------------------------ *)
(* Fetch, stack                                                        *)
(* ------------------------------------------------------------------ *)
\* fetch that reads the word low byte first.
fetch_little_endian(e) ==
    IF e.pc + 1 >= RAM_SIZE THEN [e |-> Fail(e, IndexPanic), op |-> 0]
    ELSE [e  |-> [e EXCEPT !.pc = e.pc + 2],
          op |-> e.ram[e.pc + 1] * 256 + e.ram[e.pc]]

\* Returns the machine after the fetch and the fetched word.
fetch(e) ==
    IF e.pc >= RAM_SIZE THEN [e |-> Fail(e, IndexPanic), op |-> 0]
    ELSE IF e.pc + 1 >= RAM_SIZE THEN [e |-> Fail(e, IndexPanic), op |-> 0]
    ELSE LET higher_byte == e.ram[e.pc]
             lower_byte  == e.ram[e.pc + 1]
             op          == higher_byte * 256 + lower_byte
         IN  [e |-> [e EXCEPT !.pc = e.pc + 2], op |-> op]

\* push without the bounds check of the indexing.
push_unchecked(e, val) ==
    [e EXCEPT !.stack = [e.stack EXCEPT ![e.stack_ptr] = val],
              !.stack_ptr = e.stack_ptr + 1]

push(e, val) ==
    IF e.stack_ptr >= STACK_SIZE THEN Fail(e, IndexPanic)
    ELSE [e EXCEPT !.stack = [e.stack EXCEPT ![e.stack_ptr] = val],
                   !.stack_ptr = e.stack_ptr + 1]

\* pop that reads the slot before it decrements the pointer.
pop_stale_slot(e, checks) ==
    IF e.stack_ptr = 0
    THEN [e |-> Fail(e, OverflowPanic), val |-> 0]
    ELSE [e   |-> [e EXCEPT !.stack_ptr = e.stack_ptr - 1],
          val |-> IF e.stack_ptr < STACK_SIZE THEN e.stack[e.stack_ptr] ELSE 0]

\* Returns the machine after the pop and the popped value.  `checks` is
\* whether the build has overflow checks: with them `stack_ptr -= 1` at 0
\* panics, without them it wraps to 65535 and the index panics.
pop(e, checks) ==
    IF e.stack_ptr = 0
    THEN IF checks
         THEN [e |-> Fail(e, OverflowPanic), val |-> 0]
         ELSE [e |-> Fail([e EXCEPT !.stack_ptr = U16 - 1], IndexPanic), val |-> 0]
    ELSE LET e1 == [e EXCEPT !.stack_ptr = e.stack_ptr - 1]
         IN  IF e1.stack_ptr >= STACK_SIZE
             THEN [e |-> Fail(e1, IndexPanic), val |-> 0]
             ELSE [e |-> e1, val |-> e1.stack[e1.stack_ptr]]


(* ------------------------------------------------------------------ *)
(* Instructions                                                        *)
(* ------------------------------------------------------------------ *)
SetReg(e, x, val) == [e EXCEPT !.v_reg = [e.v_reg EXCEPT ![x] = val]]

SkipNext(e) == [e EXCEPT !.pc = e.pc + 2]

clear_screen(e) == [e EXCEPT !.screen = DarkScreen]

end_subroutine(e, checks) ==
    LET r == pop(e, checks)
    IN  IF r.e.panic # NoPanic THEN r.e
        ELSE [r.e EXCEPT !.pc = r.val]

jump(e, nnn) == [e EXCEPT !.pc = nnn]

call_subroutine(e, nnn) ==
    LET e1 == push(e, e.pc)
    IN  IF e1.panic # NoPanic THEN e1
        ELSE [e1 EXCEPT !.pc = nnn]

skip_if_vx_equals_nn(e, second_digit, nn) ==
    LET x == second_digit
    IN  IF e.v_reg[x] = nn % U8 THEN SkipNext(e) ELSE e

skip_if_vx_not_equals_nn(e, second_digit, nn) ==
    LET x == second_digit
    IN  IF e.v_reg[x] # nn % U8 THEN SkipNext(e) ELSE e

skip_if_vx_equals_vy(e, second_digit, third_digit) ==
    LET x == second_digit
        y == third_digit
    IN  IF e.v_reg[x] = e.v_reg[y] THEN SkipNext(e) ELSE e

assign_nn_to_vx(e, second_digit, nn) ==
    SetReg(e, second_digit, nn % U8)

add_nn_to_vx(e, second_digit, nn) ==
    LET x == second_digit
    IN  SetReg(e, x, (e.v_reg[x] + (nn % U8)) % U8)

assign_vx_to_vy(e, second_digit, third_digit) ==
    LET x == second_digit
        y == third_digit
    IN  SetReg(e, x, e.v_reg[y])

vx_or_vy(e, second_digit, third_digit) ==
    LET x == second_digit
        y == third_digit
    IN  SetReg(e, x, BitOr(e.v_reg[x], e.v_reg[y]))

vx_and_vy(e, second_digit, third_digit) ==
    LET x == second_digit
        y == third_digit
    IN  SetReg(e, x, BitAnd(e.v_reg[x], e.v_reg[y]))

vx_xor_vy(e, second_digit, third_digit) ==
    LET x == second_digit
        y == third_digit
    IN  SetReg(e, x, BitXor(e.v_reg[x], e.v_reg[y]))

\* add_vy_to_vx that writes the flag before the sum.
add_vy_to_vx_flag_first(e, second_digit, third_digit) ==
    LET x  == second_digit
        vy == e.v_reg[third_digit]
        vf == IF e.v_reg[x] + vy >= U8 THEN 1 ELSE 0
    IN  SetReg(SetReg(e, 15, vf), x, (e.v_reg[x] + vy) % U8)

\* overflowing_add: the wrapped sum and whether it overflowed.
add_vy_to_vx(e, second_digit, third_digit) ==
    LET x     == second_digit
        y     == third_digit
        vy    == e.v_reg[y]
        vx    == (e.v_reg[x] + vy) % U8
        carry == e.v_reg[x] + vy >= U8
        vf    == IF carry THEN 1 ELSE 0
    IN  SetReg(SetReg(e, x, vx), 15, vf)

\* sub_vy_from_vx whose flag is the borrow.
sub_vy_from_vx_borrow_flag(e, second_digit, third_digit) ==
    LET x  == second_digit
        vy == e.v_reg[third_digit]
        vf == IF e.v_reg[x] < vy THEN 1 ELSE 0
    IN  SetReg(SetReg(e, x, (e.v_reg[x] - vy) % U8), 15, vf)

\* overflowing_sub: the wrapped difference and whether it borrowed.
sub_vy_from_vx(e, second_digit, third_digit) ==
    LET x     == second_digit
        y     == third_digit
        vy    == e.v_reg[y]
        vx    == (e.v_reg[x] - vy) % U8
        carry == e.v_reg[x] < vy
        vf    == IF carry THEN 0 ELSE 1
    IN  SetReg(SetReg(e, x, vx), 15, vf)

\* lshift_vx that treats a set bit 7 of the flag as nonzero, not as 1.
lshift_vx_unmasked_flag(e, second_digit) ==
    LET x   == second_digit
        msb == BitAnd(e.v_reg[x], 128)
    IN  SetReg(SetReg(e, x, (e.v_reg[x] * 2) % U8), 15, msb)

lshift_vx(e, second_digit) ==
    LET x   == second_digit
        msb == BitAnd(e.v_reg[x] \div 128, 1)
    IN  SetReg(SetReg(e, x, (e.v_reg[x] * 2) % U8), 15, msb)

rshift_vx(e, second_digit) ==
    LET x   == second_digit
        lsb == BitAnd(e.v_reg[x], 1)
    IN  SetReg(SetReg(e, x, e.v_reg[x] \div 2), 15, lsb)

\* The difference is stored in v_reg[y].
sub_vx_from_vy(e, second_digit, third_digit) ==
    LET x     == second_digit
        y     == third_digit
        vx    == e.v_reg[x]
        vy    == (e.v_reg[y] - vx) % U8
        carry == e.v_reg[y] < vx
        vf    == IF carry THEN 0 ELSE 1
    IN  SetReg(SetReg(e, y, vy), 15, vf)

skip_if_vx_not_equals_vy(e, second_digit, third_digit) ==
    LET x == second_digit
        y == third_digit
    IN  IF e.v_reg[x] # e.v_reg[y] THEN SkipNext(e) ELSE e

assign_nnn_to_ireg(e, nnn) == [e EXCEPT !.i_reg = nnn]

jump_to_offset(e, nnn) == [e EXCEPT !.pc = e.v_reg[0] + nnn]

\* rng is the byte random() returns.
assign_rand_and_nn_to_vx(e, second_digit, nn, rng) ==
    SetReg(e, second_digit, BitAnd(rng, nn % U8))

(* ------------------------------------------------------------------ *)
(* Sprite drawing                                                      *)
(* ------------------------------------------------------------------ *)
\* x = (x_coord + x_line) as usize % SCREEN_WIDTH
sprite_x(x_coord, x_line) == (x_coord + x_line) % SCREEN_WIDTH

\* y = (y_coord + y_line) as usize & SCREEN_HEIGHT
sprite_y(y_coord, y_line) == BitAnd(y_coord + y_line, SCREEN_HEIGHT)

\* The inner loop from column x_line on.  d = [e, flipped].
RECURSIVE draw_row_bits(_, _, _, _, _, _)
draw_row_bits(d, pixels, x_coord, y_coord, y_line, x_line) ==
    IF x_line >= 8 \/ d.e.panic # NoPanic THEN d
    ELSE IF BitAnd(pixels, 128 \div (2 ^ x_line)) # 0
         THEN LET x   == sprite_x(x_coord, x_line)
                  y   == sprite_y(y_coord, y_line)
                  idx == x + SCREEN_WIDTH * y
              IN  IF idx >= SCREEN_WIDTH * SCREEN_HEIGHT
                  THEN [d EXCEPT !.e = Fail(d.e, IndexPanic)]
                  ELSE draw_row_bits(
                         [e       |-> [d.e EXCEPT !.screen =
                                         [d.e.screen EXCEPT ![idx] = ~d.e.screen[idx]]],
                          flipped |-> d.flipped \/ d.e.screen[idx]],
                         pixels, x_coord, y_coord, y_line, x_line + 1)
         ELSE draw_row_bits(d, pixels, x_coord, y_coord, y_line, x_line + 1)

\* The outer loop from row y_line on.
RECURSIVE draw_rows(_, _, _, _, _, _)
draw_rows(d, checks, x_coord, y_coord, num_rows, y_line) ==
    IF y_line >= num_rows \/ d.e.panic # NoPanic THEN d
    ELSE IF d.e.i_reg + y_line >= U16 /\ checks
         THEN [d EXCEPT !.e = Fail(d.e, OverflowPanic)]
         ELSE LET addr == (d.e.i_reg + y_line) % U16
              IN  IF addr >= RAM_SIZE
                  THEN [d EXCEPT !.e = Fail(d.e, IndexPanic)]
                  ELSE draw_rows(
                         draw_row_bits(d, d.e.ram[addr], x_coord, y_coord, y_line, 0),
                         checks, x_coord, y_coord, num_rows, y_line + 1)

draw_sprite(e, vx, vy, num_rows, checks) ==
    LET x_coord == e.v_reg[vx]
        y_coord == e.v_reg[vy]
        d       == draw_rows([e |-> e, flipped |-> FALSE], checks,
                             x_coord, y_coord, num_rows, 0)
    IN  IF d.e.panic # NoPanic THEN d.e
        ELSE SetReg(d.e, 15, IF d.flipped THEN 1 ELSE 0)

(* ------------------------------------------------------------------ *)
(* Keys, timers, index register, memory                                *)
(* ------------------------------------------------------------------ *)
skip_if_key_pressed(e, x) ==
    LET vx == e.v_reg[x]
    IN  IF vx >= NUM_KEYS THEN Fail(e, IndexPanic)
        ELSE IF e.keys[vx] THEN SkipNext(e) ELSE e

skip_if_key_not_pressed(e, x) ==
    LET vx == e.v_reg[x]
    IN  IF vx >= NUM_KEYS THEN Fail(e, IndexPanic)
        ELSE IF ~e.keys[vx] THEN SkipNext(e) ELSE e

assign_dt_to_vx(e, x) == SetReg(e, x, e.delay_timer)

\* The scan `for i in 0..self.keys.len()` from index i on: the first index
\* whose flag is set, or NUM_KEYS when the loop ends without a break.
RECURSIVE scan_keys(_, _)
scan_keys(keys, i) ==
    IF i >= NUM_KEYS THEN NUM_KEYS
    ELSE IF keys[i] THEN i
    ELSE scan_keys(keys, i + 1)

\* wait_for_key_press that keeps the last pressed key: no break in the scan.
wait_for_key_press_no_break(e, x, checks) ==
    LET down == { i \in 0 .. NUM_KEYS - 1 : e.keys[i] }
    IN  IF down # {} THEN SetReg(e, x, CHOOSE i \in down : \A j \in down : j <= i)
        ELSE [e EXCEPT !.pc = (e.pc - 2) % U16]

wait_for_key_press(e, x, checks) ==
    LET i       == scan_keys(e.keys, 0)
        pressed == i < NUM_KEYS
    IN  IF pressed THEN SetReg(e, x, i % U8)
        ELSE IF e.pc < 2 /\ checks THEN Fail(e, OverflowPanic)
        ELSE [e EXCEPT !.pc = (e.pc - 2) % U16]

assign_vx_to_dt(e, x) == [e EXCEPT !.delay_timer = e.v_reg[x]]

assign_vx_to_st(e, x) == [e EXCEPT !.sound_timer = e.v_reg[x]]

add_vx_to_ireg(e, x) == [e EXCEPT !.i_reg = (e.i_reg + e.v_reg[x]) % U16]

assign_font_addr_to_ireg(e, x) ==
    LET c == e.v_reg[x]
    IN  [e EXCEPT !.i_reg = c * 5]

\* f32 arithmetic on the values the BCD conversion meets.  A value is the
\* pair [m, k] standing for m / 2^k, with m of at most 24 bits.
\* The least k with 2^23 <= (v * 2^k) / d, for 0 < v < d * 2^23.
RECURSIVE F32Scale(_, _, _)
F32Scale(v, d, k) ==
    IF (v * (2 ^ k)) \div d >= 2 ^ 23 THEN k ELSE F32Scale(v, d, k + 1)

\* v as f32 / d as f32, rounded to nearest, ties to even.
F32Div(v, d) ==
    IF v = 0 THEN [m |-> 0, k |-> 0]
    ELSE LET k == F32Scale(v, d, 0)
             n == v * (2 ^ k)
             q == n \div d
             r == n % d
         IN  [m |-> IF 2 * r > d \/ (2 * r = d /\ q % 2 = 1) THEN q + 1 ELSE q,
              k |-> k]

\* f % 10.0, which is exact.
F32Rem10(f) == [m |-> f.m % (10 * (2 ^ f.k)), k |-> f.k]

\* f rounded to the nearest integer instead of floored.
F32Round(f) ==
    IF f.k = 0 THEN f.m ELSE (f.m + 2 ^ (f.k - 1)) \div (2 ^ f.k)

\* f.floor() as u8, for 0 <= f < 256.
F32Floor(f) == f.m \div (2 ^ f.k)

\* A write whose address wraps around the end of ram.
write_ram_wrapping(e, addr, val) ==
    IF e.panic # NoPanic THEN e
    ELSE [e EXCEPT !.ram = [e.ram EXCEPT ![addr % RAM_SIZE] = val]]

\* self.ram[addr] = val, on a machine that may already have panicked.
write_ram(e, addr, val) ==
    IF e.panic # NoPanic THEN e
    ELSE IF addr >= RAM_SIZE THEN Fail(e, IndexPanic)
    ELSE [e EXCEPT !.ram = [e.ram EXCEPT ![addr] = val]]

\* The digits are computed in f32 (vx itself is exact in f32, and so is
\* vx % 10.0).  i_reg + 1 and i_reg + 2 are u16 additions.
assign_vx_bcd_to_ireg(e, x, checks) ==
    LET vx       == e.v_reg[x]
        hundreds == F32Floor(F32Div(vx, 100))
        tens     == F32Floor(F32Rem10(F32Div(vx, 10)))
        ones     == vx % 10
        e1       == write_ram(e, e.i_reg, hundreds)
        e2       == IF e1.panic = NoPanic /\ e.i_reg + 1 >= U16 /\ checks
                    THEN Fail(e1, OverflowPanic)
                    ELSE write_ram(e1, (e.i_reg + 1) % U16, tens)
    IN  IF e2.panic = NoPanic /\ e.i_reg + 2 >= U16 /\ checks
        THEN Fail(e2, OverflowPanic)
        ELSE write_ram(e2, (e.i_reg + 2) % U16, ones)

\* for idx in 0..=x, from idx on
RECURSIVE store_regs_from(_, _, _)
store_regs_from(e, x, idx) ==
    IF idx > x \/ e.panic # NoPanic THEN e
    ELSE store_regs_from(write_ram(e, e.i_reg + idx, e.v_reg[idx]), x, idx + 1)

store_regs_into_ram(e, x) == store_regs_from(e, x, 0)

RECURSIVE load_regs_from(_, _, _)
load_regs_from(e, x, idx) ==
    IF idx > x \/ e.panic # NoPanic THEN e
    ELSE IF e.i_reg + idx >= RAM_SIZE THEN Fail(e, IndexPanic)
    ELSE load_regs_from(SetReg(e, idx, e.ram[e.i_reg + idx]), x, idx + 1)

load_ram_into_regs(e, x) == load_regs_from(e, x, 0)

(* ------------------------------------------------------------------ *)
(* Decode and dispatch                                                 *)
(* ------------------------------------------------------------------ *)
first_digit(op)  == op \div 4096
second_digit(op) == (op \div 256) % 16
third_digit(op)  == (op \div 16) % 16
fourth_digit(op) == op % 16

\* An unrecognised word that is skipped like a NOP.
unimplemented_ignored(e, op) == e

\* unimplemented!("Unimplemented opcode: {}", op)
unimplemented(e, op) == Fail(e, UnimplementedPanic)

\* rng is the byte random() would return, checks whether the build has
\* overflow checks.  The arms are those of the match, in its order; no two
\* of its patterns overlap.
execute(e, op, rng, checks) ==
    LET d1  == first_digit(op)
        d2  == second_digit(op)
        d3  == third_digit(op)
        d4  == fourth_digit(op)
        nnn == op % 4096
        nn  == op % 256
    IN  CASE d1 = 0 /\ d2 = 0 /\ d3 = 0 /\ d4 = 0   -> e
          [] d1 = 0 /\ d2 = 0 /\ d3 = 14 /\ d4 = 0  -> clear_screen(e)
          [] d1 = 0 /\ d2 = 0 /\ d3 = 14 /\ d4 = 14 -> end_subroutine(e, checks)
          [] d1 = 1             -> jump(e, nnn)
          [] d1 = 2             -> call_subroutine(e, nnn)
          [] d1 = 3             -> skip_if_vx_equals_nn(e, d2, nn)
          [] d1 = 4             -> skip_if_vx_not_equals_nn(e, d2, nn)
          [] d1 = 5 /\ d4 = 0   -> skip_if_vx_equals_vy(e, d2, d3)
          [] d1 = 6             -> assign_nn_to_vx(e, d2, nn)
          [] d1 = 7             -> add_nn_to_vx(e, d2, nn)
          [] d1 = 8 /\ d4 = 0   -> assign_vx_to_vy(e, d2, d3)
          [] d1 = 8 /\ d4 = 1   -> vx_or_vy(e, d2, d3)
          [] d1 = 8 /\ d4 = 2   -> vx_and_vy(e, d2, d3)
          [] d1 = 8 /\ d4 = 3   -> vx_xor_vy(e, d2, d3)
          [] d1 = 8 /\ d4 = 4   -> add_vy_to_vx(e, d2, d3)
          [] d1 = 8 /\ d4 = 5   -> sub_vy_from_vx(e, d2, d3)
          [] d1 = 8 /\ d4 = 6   -> rshift_vx(e, d2)
          [] d1 = 8 /\ d4 = 7   -> sub_vx_from_vy(e, d2, d3)
          [] d1 = 8 /\ d4 = 14  -> lshift_vx(e, d2)
          [] d1 = 9 /\ d4 = 0   -> skip_if_vx_not_equals_vy(e, d2, d3)
          [] d1 = 10            -> assign_nnn_to_ireg(e, nnn)
          [] d1 = 11            -> jump_to_offset(e, nnn)
          [] d1 = 12            -> assign_rand_and_nn_to_vx(e, d2, nn, rng)
          [] d1 = 13            -> draw_sprite(e, d2, d3, d4, checks)
          [] d1 = 14 /\ d3 = 9 /\ d4 = 14  -> skip_if_key_pressed(e, d2)
          [] d1 = 14 /\ d3 = 10 /\ d4 = 1  -> skip_if_key_not_pressed(e, d2)
          [] d1 = 15 /\ d3 = 0 /\ d4 = 7   -> assign_dt_to_vx(e, d2)
          [] d1 = 15 /\ d3 = 0 /\ d4 = 10  -> wait_for_key_press(e, d2, checks)
          [] d1 = 15 /\ d3 = 1 /\ d4 = 5   -> assign_vx_to_dt(e, d2)
          [] d1 = 15 /\ d3 = 1 /\ d4 = 8   -> assign_vx_to_st(e, d2)
          [] d1 = 15 /\ d3 = 1 /\ d4 = 14  -> add_vx_to_ireg(e, d2)
          [] d1 = 15 /\ d3 = 2 /\ d4 = 9   -> assign_font_addr_to_ireg(e, d2)
          [] d1 = 15 /\ d3 = 3 /\ d4 = 3   -> assign_vx_bcd_to_ireg(e, d2, checks)
          [] d1 = 15 /\ d3 = 5 /\ d4 = 5   -> store_regs_into_ram(e, d2)
          [] d1 = 15 /\ d3 = 6 /\ d4 = 6   -> load_ram_into_regs(e, d2)
          [] OTHER              -> unimplemented(e, op)

tick(e, rng, checks) ==
    LET f == fetch(e)
    IN  IF f.e.panic # NoPanic THEN f.e
        ELSE execute(f.e, f.op, rng, checks)

(* ------------------------------------------------------------------ *)
(* The two entry points the driver calls that lib.rs does not define   *)
(* ------------------------------------------------------------------ *)
\* load(image): copies image verbatim starting at the load address.
load(e, image) ==
    [e EXCEPT !.ram = [a \in START_ADDR .. START_ADDR + Len(image) - 1 |->
                          image[a - START_ADDR + 1]] @@ e.ram]

\* keypress(index, pressed): the only external mutator of the keypad.
keypress(e, idx, pressed) ==
    [e EXCEPT !.keys = [e.keys EXCEPT ![idx] = pressed]]

(* ------------------------------------------------------------------ *)
(* Inputs: program images, keys the driver presses, random bytes       *)
(* ------------------------------------------------------------------ *)
\* The big-endian bytes of a sequence of instruction words.
Bytes(words) ==
    [i \in 1 .. 2 * Len(words) |->
        IF i % 2 = 1 THEN words[(i + 1) \div 2] \div 256
                     ELSE words[i \div 2] % 256]

\* Two call sites of a subroutine that itself calls a subroutine.
ProgCall ==
    Bytes(<< \H2206,     \* 200: CALL 206
             \H2206,     \* 202: CALL 206
             \H1204,     \* 204: JMP 204
             \H220A,     \* 206: CALL 20A
             \H00EE,     \* 208: RET
             \H6005,     \* 20A: V0 = 5
             \H00EE >>)  \* 20C: RET

\* Unbounded recursion: the 17th call finds the stack full.
ProgOverflow == Bytes(<< \H2200 >>)

\* A return with nothing on the stack.
ProgUnderflow == Bytes(<< \H6001, \H00EE >>)

\* Waits for a key and loads both timers with its index.
ProgKey ==
    Bytes(<< \HF30A,     \* 200: V3 = key
             \HF315,     \* 202: DT = V3
             \HF318,     \* 204: ST = V3
             \HF407,     \* 206: V4 = DT
             \H1200 >>)  \* 208: JMP 200

\* Touches every part of the machine: registers, timers, index register,
\* screen (the glyph of 1), font bytes in ram, stack.
ProgMisc ==
    Bytes(<< \H6102,     \* 200: V1 = 2
             \HF115,     \* 202: DT = V1
             \HF118,     \* 204: ST = V1
             \HA005,     \* 206: I = 5
             \HD115,     \* 208: DRW V1, V1, 5
             \HF155,     \* 20A: store V0..V1 at I
             \HC20F,     \* 20C: V2 = RAND & 0F
             \H2212,     \* 20E: CALL 212
             \H1210,     \* 210: JMP 210
             \H00E0,     \* 212: CLS
             \H00EE >>)  \* 214: RET

\* An instruction word the dispatch does not recognise.
ProgBad == Bytes(<< \H6001, \H5121 >>)

\* Runs off the end of memory.
ProgRunOff == Bytes(<< \H1FFE >>)

Programs ==
    { ProgCall, ProgOverflow, ProgUnderflow, ProgKey, ProgMisc, ProgBad, ProgRunOff }

\* The driver presses and releases keys 1 .. MaxKey.
MaxKey == 2
DriverKeys == 1 .. MaxKey

\* Bytes random() may return.
RandBytes == { 0, \HA5, \HFF }

(* ------------------------------------------------------------------ *)
(* State                                                               *)
(* ------------------------------------------------------------------ *)
VARIABLES
    pc, ram, screen, v_reg, i_reg, stack_ptr, stack, keys,
    delay_timer, sound_timer,   \* the fields of Emulator
    panic,          \* the panic that ended the machine, or "none"
    tone_signals,   \* tone signals the engine raised during the last call
    loaded,         \* driver: load() has been called since new()/reset()
    last_call,      \* history: the entry point called last
    prev,           \* history: the machine before that call
    call_log,       \* history: the calls not yet returned from, oldest first
    matched         \* history: the call the last completed return belongs to

vars == << pc, ram, screen, v_reg, i_reg, stack_ptr, stack, keys,
           delay_timer, sound_timer, panic, tone_signals, loaded,
           last_call, prev, call_log, matched >>

Machine ==
    [ pc          |-> pc,
      ram         |-> ram,
      screen      |-> screen,
      v_reg       |-> v_reg,
      i_reg       |-> i_reg,
      stack_ptr   |-> stack_ptr,
      stack       |-> stack,
      keys        |-> keys,
      delay_timer |-> delay_timer,
      sound_timer |-> sound_timer,
      panic       |-> panic ]

Becomes(e) ==
    /\ pc' = e.pc
    /\ ram' = e.ram
    /\ screen' = e.screen
    /\ v_reg' = e.v_reg
    /\ i_reg' = e.i_reg
    /\ stack_ptr' = e.stack_ptr
    /\ stack' = e.stack
    /\ keys' = e.keys
    /\ delay_timer' = e.delay_timer
    /\ sound_timer' = e.sound_timer
    /\ panic' = e.panic

NoCall == [a |-> -1, s |-> -1]

\* The word tick() fetches from machine e (0 when the fetch itself panics).
OpAt(e) == fetch(e).op

IsCall(op) == first_digit(op) = 2
IsRet(op)  == op = \H00EE

\* let mut chip8 = Emulator::new();
Init ==
    /\ pc = new.pc
    /\ ram = new.ram
    /\ screen = new.screen
    /\ v_reg = new.v_reg
    /\ i_reg = new.i_reg
    /\ stack_ptr = new.stack_ptr
    /\ stack = new.stack
    /\ keys = new.keys
    /\ delay_timer = new.delay_timer
    /\ sound_timer = new.sound_timer
    /\ panic = new.panic
    /\ tone_signals = 0
    /\ loaded = FALSE
    /\ last_call = "new"
    /\ prev = new
    /\ call_log = << >>
    /\ matched = NoCall

(* ------------------------------------------------------------------ *)
(* Actions: the calls of the driver                                    *)
(* ------------------------------------------------------------------ *)
\* chip8.load(&buffer), called once on a machine just constructed (or reset).
LoadFrom(images) ==
    /\ panic = NoPanic
    /\ ~loaded
    /\ \E image \in images : Becomes(load(Machine, image))
    /\ loaded' = TRUE
    /\ last_call' = "load"
    /\ prev' = Machine
    /\ tone_signals' = 0
    /\ UNCHANGED << call_log, matched >>

Load == LoadFrom(Programs)

\* chip8.keypress(k, pressed) from the event loop.
Keypress ==
    /\ panic = NoPanic
    /\ loaded
    /\ \E k \in DriverKeys, pressed \in BOOLEAN :
          Becomes(keypress(Machine, k, pressed))
    /\ last_call' = "keypress"
    /\ prev' = Machine
    /\ tone_signals' = 0
    /\ UNCHANGED << loaded, call_log, matched >>

\* The history of calls and returns after a tick from e to e2.
LogAfter(e, e2) ==
    IF e2.panic # NoPanic \/ fetch(e).e.panic # NoPanic THEN call_log
    ELSE IF IsCall(OpAt(e)) THEN Append(call_log, [a |-> e.pc, s |-> e.stack_ptr])
    ELSE IF IsRet(OpAt(e)) /\ Len(call_log) > 0 THEN SubSeq(call_log, 1, Len(call_log) - 1)
    ELSE call_log

MatchedAfter(e, e2) ==
    IF e2.panic # NoPanic \/ fetch(e).e.panic # NoPanic THEN matched
    ELSE IF IsRet(OpAt(e))
         THEN IF Len(call_log) > 0 THEN call_log[Len(call_log)] ELSE NoCall
         ELSE matched

\* The bytes random() may return to the instruction op: it is called by
\* CXNN alone.
RngFor(op) == IF first_digit(op) = 12 THEN RandBytes ELSE { 0 }

\* The builds whose tick of e differ: with and without overflow checks when
\* the two behave differently, one of them otherwise.
ChecksFor(e) ==
    IF tick(e, 0, TRUE) = tick(e, 0, FALSE) THEN { TRUE } ELSE BOOLEAN

\* chip8.tick()
Tick ==
    /\ panic = NoPanic
    /\ loaded
    /\ \E rng \in RngFor(OpAt(Machine)), checks \in ChecksFor(Machine) :
          LET e2 == tick(Machine, rng, checks)
          IN  /\ Becomes(e2)
              /\ call_log' = LogAfter(Machine, e2)
              /\ matched' = MatchedAfter(Machine, e2)
    /\ last_call' = "tick"
    /\ prev' = Machine
    /\ tone_signals' = 0
    /\ UNCHANGED loaded

\* chip8.tick_timers()
TickTimers ==
    /\ panic = NoPanic
    /\ loaded
    /\ Becomes(tick_timers(Machine))
    /\ tone_signals' = tick_timers_signals(Machine)
    /\ last_call' = "tick_timers"
    /\ prev' = Machine
    /\ UNCHANGED << loaded, call_log, matched >>

\* reset(): the program is gone from ram, so the driver has to load again.
Reset ==
    /\ panic = NoPanic
    /\ loaded
    /\ Becomes(reset(Machine))
    /\ loaded' = FALSE
    /\ last_call' = "reset"
    /\ prev' = Machine
    /\ call_log' = << >>
    /\ matched' = NoCall
    /\ tone_signals' = 0

Next == Load \/ Keypress \/ Tick \/ TickTimers \/ Reset

\* The machine after n ticks of e (fewer if one panics), none of which
\* draws a random byte or depends on the build.
RECURSIVE run(_, _)
run(e, n) ==
    IF n = 0 \/ e.panic # NoPanic THEN e
    ELSE IF n = 1 THEN tick(e, 0, TRUE)
    ELSE LET half == run(e, n \div 2)
         IN  IF half.panic # NoPanic THEN half
             ELSE run(half, n - n \div 2)

\* The variables hold the machine the driver has after loading image into a
\* new machine and ticking n times, with the history of that.
StartsAfter(image, n) ==
    LET e == run(load(new, image), n)
    IN  /\ pc = e.pc
        /\ ram = e.ram
        /\ screen = e.screen
        /\ v_reg = e.v_reg
        /\ i_reg = e.i_reg
        /\ stack_ptr = e.stack_ptr
        /\ stack = e.stack
        /\ keys = e.keys
        /\ delay_timer = e.delay_timer
        /\ sound_timer = e.sound_timer
        /\ panic = e.panic
        /\ tone_signals = 0
        /\ loaded = TRUE
        /\ last_call = IF n = 0 THEN "load" ELSE "tick"
        /\ prev = IF n = 0 THEN new ELSE run(load(new, image), n - 1)
        /\ call_log = << >>
        /\ matched = NoCall

\* The first tick after the load.
FirstTick == last_call = "load" /\ Tick

Spec == Init /\ [][Next]_vars

(* ------------------------------------------------------------------ *)
(* The decoder on every instruction word: a machine loaded with a      *)
(* one-word image executes that word.                                  *)
(* ------------------------------------------------------------------ *)
\* Every first nibble and low byte, with the second nibble in 0 .. MaxX.
MaxX == 3
Words == { w \in 0 .. U16 - 1 : second_digit(w) <= MaxX }

\* The driver loads a one-word image into the new machine.
LoadWord == LoadFrom({ Bytes(<< w >>) : w \in Words })

NextDecode == LoadWord \/ FirstTick

SpecDecode == Init /\ [][NextDecode]_vars

(* ------------------------------------------------------------------ *)
(* Sprite drawing: a program sets V0, V1 and I and draws the same      *)
(* sprite twice on the blank screen.  The sprite rows are font bytes.  *)
(* ------------------------------------------------------------------ *)
SpriteXs    == { 0, 3, 60, 63, 64, 255 }
SpriteYs    == { 0, 1, 28, 31, 32, 255 }
SpriteRows  == { 1, 2, 5, 15 }
SpriteAddrs == { 0, 5, 22 }

ProgDraw(x, y, addr, n) ==
    Bytes(<< \H6000 + x,         \* 200: V0 = x
             \H6100 + y,         \* 202: V1 = y
             \HA000 + addr,      \* 204: I = addr
             \HD010 + n,         \* 206: DRW V0, V1, n
             \HD010 + n >>)      \* 208: DRW V0, V1, n

IsDraw(op) == first_digit(op) = 13

InitDraw ==
    \E x \in SpriteXs, y \in SpriteYs, addr \in SpriteAddrs, n \in SpriteRows :
        StartsAfter(ProgDraw(x, y, addr, n), 3)

\* The driver ticks while the next instruction is a draw.
DrawTick == IsDraw(OpAt(Machine)) /\ Tick

NextDraw == DrawTick

SpecDraw == InitDraw /\ [][NextDraw]_vars

(* ------------------------------------------------------------------ *)
(* Memory bounds: programs that bring pc or I to the end of ram and    *)
(* beyond, then fetch or execute an instruction that addresses memory. *)
(* ------------------------------------------------------------------ *)
\* JMP nnn: pc = nnn.
ProgJump(nnn) == Bytes(<< \H1000 + nnn >>)

\* V0 = v; JMP V0 + nnn: pc = v + nnn.
ProgJumpOffset(v, nnn) == Bytes(<< \H6000 + v, \HB000 + nnn >>)

Repeat(w, k) == [i \in 1 .. k |-> w]

\* V0 = v; I = nnn; k times I += V0; then the word w: I = nnn + k * v.
ProgIndex(v, nnn, k, w) ==
    Bytes(<< \H6000 + v, \HA000 + nnn >> \o Repeat(\HF01E, k) \o << w >>)

\* <<v, nnn, k>> giving I = 0, 100, 4080 .. 4097, 65521, 65534, 65535.
IndexParams ==
    { << 0, 0, 0 >>, << 0, 100, 0 >>, << 0, 4080, 0 >>, << 0, 4081, 0 >>,
      << 0, 4082, 0 >>, << 0, 4093, 0 >>, << 0, 4094, 0 >>, << 0, 4095, 0 >>,
      << 1, 4095, 1 >>, << 2, 4095, 1 >>,
      << 255, 4066, 241 >>, << 255, 4079, 241 >>, << 255, 4080, 241 >> }

\* DRW V1, V1, n; the BCD store; the bulk store; the two candidates for the
\* bulk load (FX66 is the word the dispatch knows, FX65 the conventional one).
MemWords ==
    { \HD110, \HD111, \HD112, \HD11F,
      \HF033, \HF133,
      \HF055, \HF155, \HFF55,
      \HF066, \HF166, \HFF66,
      \HF065, \HF165, \HFF65 }

IsBcd(op)     == first_digit(op) = 15 /\ op % 256 = \H33
IsStore(op)   == first_digit(op) = 15 /\ op % 256 = \H55
IsLoad66(op)  == first_digit(op) = 15 /\ op % 256 = \H66
IsLoad65(op)  == first_digit(op) = 15 /\ op % 256 = \H65

InitMem ==
    \/ \E nnn \in { 4093, 4094, 4095 } : StartsAfter(ProgJump(nnn), 1)
    \/ \E v \in { 1, 2, 255 } : StartsAfter(ProgJumpOffset(v, 4095), 2)
    \/ \E t \in IndexParams, w \in MemWords :
          StartsAfter(ProgIndex(t[1], t[2], t[3], w), t[3] + 2)

\* The driver ticks while pc is at the end of ram or the next instruction
\* addresses memory.
MemTick ==
    /\ \/ pc >= RAM_SIZE - 3
       \/ OpAt(Machine) \in MemWords
    /\ Tick

NextMem == MemTick

SpecMem == InitMem /\ [][NextMem]_vars

(* ------------------------------------------------------------------ *)
(* Vocabulary of the properties                                        *)
(* ------------------------------------------------------------------ *)
\* The last call was a tick whose fetch succeeded: LastOp was dispatched.
Ticked == last_call = "tick" /\ fetch(prev).e.panic = NoPanic
LastOp == OpAt(prev)
LastX  == second_digit(LastOp)

IsWaitKey(op) == first_digit(op) = 15 /\ op % 256 = \H0A
IsLdDT(op)    == first_digit(op) = 15 /\ op % 256 = \H15
IsLdST(op)    == first_digit(op) = 15 /\ op % 256 = \H18

(* ------------------------------------------------------------------ *)
(* C1: while the machine has not panicked 0 <= stack_ptr <= 16; a call *)
(* (2NNN) executed with stack_ptr = 16 and a return (00EE) executed    *)
(* with stack_ptr = 0 end the tick in a panic, pc not redirected.      *)
(* ------------------------------------------------------------------ *)
C1_StackBounds ==
    /\ panic = NoPanic => 0 <= stack_ptr /\ stack_ptr <= STACK_SIZE
    /\ Ticked /\ IsCall(LastOp) /\ prev.stack_ptr = STACK_SIZE
          => panic # NoPanic /\ pc = prev.pc + 2
    /\ Ticked /\ IsRet(LastOp) /\ prev.stack_ptr = 0
          => panic # NoPanic /\ pc = prev.pc + 2

\* The 17th nested call has just panicked.
C1_Witness ==
    /\ Ticked /\ IsCall(LastOp)
    /\ prev.stack_ptr = STACK_SIZE
    /\ panic = IndexPanic

(* ------------------------------------------------------------------ *)
(* C2: a return that completes lands on the instruction after the call *)
(* it belongs to (the innermost call not yet returned from) and        *)
(* restores the stack pointer that call found.                         *)
(* ------------------------------------------------------------------ *)
C2_CallReturnLifo ==
    Ticked /\ IsRet(LastOp) /\ panic = NoPanic
        => /\ matched # NoCall
           /\ pc = matched.a + 2
           /\ stack_ptr = matched.s

\* The outer subroutine returns to its second call site after the inner
\* call and return.
C2_Witness ==
    /\ Ticked /\ IsRet(LastOp) /\ panic = NoPanic
    /\ prev.stack_ptr = 1
    /\ matched = [a |-> \H202, s |-> 0]
    /\ pc = \H204
    /\ v_reg[0] = 5

(* ------------------------------------------------------------------ *)
(* C3: reset() leaves exactly the machine new() builds: pc = 0x200,    *)
(* the font table in ram[0..80), every other ram byte 0, registers,    *)
(* index register, stack, keys, screen and timers zeroed.              *)
(* ------------------------------------------------------------------ *)
C3_ResetIsNew ==
    last_call = "reset"
        => /\ Machine = new
           /\ pc = START_ADDR
           /\ \A a \in 0 .. RAM_SIZE - 1 :
                 ram[a] = IF a < FONTSET_SIZE THEN FONTSET[a + 1] ELSE 0
           /\ \A r \in 0 .. REGISTER_COUNT - 1 : v_reg[r] = 0
           /\ i_reg = 0
           /\ stack_ptr = 0
           /\ \A i \in 0 .. STACK_SIZE - 1 : stack[i] = 0
           /\ \A k \in 0 .. NUM_KEYS - 1 : ~keys[k]
           /\ \A p \in 0 .. SCREEN_WIDTH * SCREEN_HEIGHT - 1 : ~screen[p]
           /\ delay_timer = 0 /\ sound_timer = 0

\* A reset of a machine every part of which differed from a new one.
C3_Witness ==
    /\ last_call = "reset"
    /\ prev.pc # START_ADDR
    /\ prev.ram[5] # FONTSET[6]
    /\ prev.ram[START_ADDR] # 0
    /\ prev.screen # DarkScreen
    /\ prev.v_reg[1] # 0
    /\ prev.i_reg # 0
    /\ prev.stack_ptr > 0 /\ prev.stack[0] # 0
    /\ prev.keys[1]
    /\ prev.delay_timer > 0 /\ prev.sound_timer > 0

(* ------------------------------------------------------------------ *)
(* C6: a tick that executes FX0A with no key down leaves the whole     *)
(* machine as it was, pc on the FX0A again; with a key down it sets VX *)
(* to the lowest index of a key that is down and leaves pc on the next *)
(* instruction.                                                        *)
(* ------------------------------------------------------------------ *)
LowestKeyDown(k) ==
    CHOOSE i \in 0 .. NUM_KEYS - 1 : k[i] /\ \A j \in 0 .. i - 1 : ~k[j]

C6_WaitForKey ==
    Ticked /\ IsWaitKey(LastOp)
        => IF prev.keys = NoKeys
           THEN /\ Machine = prev
                /\ pc = prev.pc
                /\ IsWaitKey(OpAt(Machine))
           ELSE /\ panic = NoPanic
                /\ v_reg[LastX] = LowestKeyDown(prev.keys)
                /\ pc = prev.pc + 2

\* Two keys were down and the register got the lower index.
C6_Witness ==
    /\ Ticked /\ IsWaitKey(LastOp)
    /\ prev.keys[1] /\ prev.keys[2]
    /\ prev.v_reg[3] # 1
    /\ v_reg[3] = 1

(* ------------------------------------------------------------------ *)
(* C7: tick_timers() lowers each timer by one if it is above zero and  *)
(* leaves it at zero otherwise, and changes nothing else; a tick       *)
(* changes delay_timer only by FX15 (to VX) and sound_timer only by    *)
(* FX18 (to VX).                                                       *)
(* ------------------------------------------------------------------ *)
C7_TimersTowardZero ==
    /\ last_call = "tick_timers"
          => /\ delay_timer = IF prev.delay_timer > 0 THEN prev.delay_timer - 1 ELSE 0
             /\ sound_timer = IF prev.sound_timer > 0 THEN prev.sound_timer - 1 ELSE 0
             /\ Machine = [prev EXCEPT !.delay_timer = delay_timer,
                                       !.sound_timer = sound_timer]
    /\ last_call = "tick"
          => /\ delay_timer = IF Ticked /\ IsLdDT(LastOp)
                              THEN prev.v_reg[LastX] ELSE prev.delay_timer
             /\ sound_timer = IF Ticked /\ IsLdST(LastOp)
                              THEN prev.v_reg[LastX] ELSE prev.sound_timer

\* One timer went from 2 to 1 while the other stayed at 0.
C7_Witness ==
    /\ last_call = "tick_timers"
    /\ prev.delay_timer = 2 /\ delay_timer = 1
    /\ prev.sound_timer = 0 /\ sound_timer = 0

(* ------------------------------------------------------------------ *)
(* C8: a tick_timers() call raises a tone signal exactly when it moves *)
(* sound_timer from 1 to 0: one signal then, none otherwise.           *)
(* ------------------------------------------------------------------ *)
C8_ToneSignalOnExpiry ==
    last_call = "tick_timers"
        => tone_signals = IF prev.sound_timer = 1 /\ sound_timer = 0 THEN 1 ELSE 0

(* ------------------------------------------------------------------ *)
(* C9: a tick ends in the unimplemented-opcode panic if and only if    *)
(* the word it fetched matches none of the patterns of the dispatch    *)
(* table; a word that matches none is never passed over.               *)
(* ------------------------------------------------------------------ *)
\* The patterns of the match arms, as masks on the word.
Recognized(op) ==
    \/ op \in { \H0000, \H00E0, \H00EE }
    \/ op \div 4096 \in { 1, 2, 3, 4, 6, 7, 10, 11, 12, 13 }
    \/ op \div 4096 \in { 5, 9 } /\ op % 16 = 0
    \/ op \div 4096 = 8 /\ op % 16 \in { 0, 1, 2, 3, 4, 5, 6, 7, 14 }
    \/ op \div 4096 = 14 /\ op % 256 \in { \H9E, \HA1 }
    \/ op \div 4096 = 15 /\ op % 256 \in
          { \H07, \H0A, \H15, \H18, \H1E, \H29, \H33, \H55, \H66 }

C9_UnimplementedIffUnrecognized ==
    Ticked => (panic = UnimplementedPanic <=> ~Recognized(LastOp))

\* A word outside the table (FX65) has just ended the machine.
C9_Witness ==
    /\ Ticked
    /\ LastOp = \HF165
    /\ ~Recognized(LastOp)
    /\ panic = UnimplementedPanic
    /\ pc = START_ADDR + 2

(* ------------------------------------------------------------------ *)
(* C4: DXYN toggles, for every set bit (row r, column c, MSB first) of *)
(* the sprite rows ram[I + r], the pixel at column (VX + c) mod 64 and *)
(* row (VY + r) mod 32, and changes no other pixel.                    *)
(* ------------------------------------------------------------------ *)
\* Bit c (MSB first) of byte b.
SpriteBit(b, c) == (b \div (2 ^ (7 - c))) % 2 = 1

\* Pixel p is the target of a set bit of the n-row sprite at ram[i ..],
\* drawn from origin (vx, vy), under the placement law.
IsTarget(e, p, vx, vy, n) ==
    \E r \in 0 .. n - 1, c \in 0 .. 7 :
        /\ SpriteBit(e.ram[e.i_reg + r], c)
        /\ p = ((vx + c) % SCREEN_WIDTH) + SCREEN_WIDTH * ((vy + r) % SCREEN_HEIGHT)

C4_DrawPlacement ==
    Ticked /\ IsDraw(LastOp) /\ prev.i_reg + fourth_digit(LastOp) <= RAM_SIZE
        => /\ panic = NoPanic
           /\ \A p \in 0 .. SCREEN_WIDTH * SCREEN_HEIGHT - 1 :
                 screen[p] = (prev.screen[p] #
                              IsTarget(prev, p, prev.v_reg[LastX],
                                       prev.v_reg[third_digit(LastOp)],
                                       fourth_digit(LastOp)))

(* ------------------------------------------------------------------ *)
(* C5: the same DXYN executed twice on a blank screen, for a sprite of *)
(* 1..15 rows with a set bit: VF = 0 after the first draw, and after   *)
(* the second the screen is blank again and VF = 1.                    *)
(* ------------------------------------------------------------------ *)
HasSetBit(e, n) == \E r \in 0 .. n - 1 : e.ram[e.i_reg + r] # 0

C5_DoubleDraw ==
    Ticked /\ IsDraw(LastOp) /\ fourth_digit(LastOp) >= 1
           /\ HasSetBit(prev, fourth_digit(LastOp))
        => /\ prev.pc = START_ADDR + 6
              => panic = NoPanic /\ v_reg[15] = 0
           /\ prev.pc = START_ADDR + 8
              => panic = NoPanic /\ v_reg[15] = 1 /\ screen = DarkScreen

(* ------------------------------------------------------------------ *)
(* C10: a tick whose fetch reads pc or pc + 1 >= 4096, or whose        *)
(* instruction (DXYN rows, FX33, FX55, FX65) addresses I + offset >=   *)
(* 4096, ends in a panic, for every pc and I the machine can hold.     *)
(* ------------------------------------------------------------------ *)
\* The highest offset from I the instruction op addresses, -1 if none.
LastOffset(op) ==
    IF IsDraw(op) THEN fourth_digit(op) - 1
    ELSE IF IsBcd(op) THEN 2
    ELSE IF IsStore(op) \/ IsLoad65(op) \/ IsLoad66(op) THEN second_digit(op)
    ELSE -1

C10_OutOfBoundsIsFatal ==
    /\ last_call = "tick" /\ prev.pc + 1 >= RAM_SIZE
          => panic # NoPanic /\ pc = prev.pc
    /\ Ticked /\ LastOffset(LastOp) >= 0
              /\ prev.i_reg + LastOffset(LastOp) >= RAM_SIZE
          => panic # NoPanic

\* The BCD store with I = 65535 has just panicked on its first byte.
C10_Witness ==
    /\ Ticked /\ IsBcd(LastOp)
    /\ prev.i_reg = U16 - 1
    /\ panic = IndexPanic
    /\ ram = prev.ram

(* ------------------------------------------------------------------ *)
(* Vocabulary of the instruction properties                            *)
(* ------------------------------------------------------------------ *)
\* The big-endian word at pc of machine e.
WordAt(e) == e.ram[e.pc] * 256 + e.ram[e.pc + 1]

IsJump(op) == first_digit(op) \in { 1, 11 }

\* Key k is a key of the pad and is down.
KeyDown(e, k) == k < NUM_KEYS /\ e.keys[k]

IsSkipNN(op)  == first_digit(op) \in { 3, 4 }
IsSkipXY(op)  == first_digit(op) \in { 5, 9 } /\ fourth_digit(op) = 0
IsSkipKey(op) == first_digit(op) = 14 /\ op % 256 \in { \H9E, \HA1 }
IsSkip(op)    == IsSkipNN(op) \/ IsSkipXY(op) \/ IsSkipKey(op)

\* The condition of the skip instruction op, in machine e.
SkipHolds(e, op) ==
    LET vx == e.v_reg[second_digit(op)]
        vy == e.v_reg[third_digit(op)]
        nn == op % 256
    IN  \/ first_digit(op) = 3 /\ vx = nn
        \/ first_digit(op) = 4 /\ vx # nn
        \/ first_digit(op) = 5 /\ fourth_digit(op) = 0 /\ vx = vy
        \/ first_digit(op) = 9 /\ fourth_digit(op) = 0 /\ vx # vy
        \/ first_digit(op) = 14 /\ nn = \H9E /\ KeyDown(e, vx)
        \/ first_digit(op) = 14 /\ nn = \HA1 /\ ~KeyDown(e, vx)

NoKeyDown(e) == \A k \in 0 .. NUM_KEYS - 1 : ~e.keys[k]

(* ------------------------------------------------------------------ *)
(* C11: a tick dispatches the big-endian word ram[pc] * 256 +          *)
(* ram[pc + 1] with pc already advanced by 2: after an instruction     *)
(* that completes and is not a jump, call, return, skip whose          *)
(* condition holds or wait-for-key with no key down, pc is its value   *)
(* before the tick plus 2.                                             *)
(* ------------------------------------------------------------------ *)
C11_FetchAdvancesPc ==
    Ticked =>
        /\ LastOp = WordAt(prev)
        /\ first_digit(WordAt(prev)) = 6
              => v_reg[second_digit(WordAt(prev))] = WordAt(prev) % 256
        /\ first_digit(WordAt(prev)) = 10 => i_reg = WordAt(prev) % 4096
        /\ panic = UnimplementedPanic => pc = prev.pc + 2
        /\ /\ panic = NoPanic
           /\ ~IsJump(LastOp) /\ ~IsCall(LastOp) /\ ~IsRet(LastOp)
           /\ ~SkipHolds(prev, LastOp)
           /\ ~(IsWaitKey(LastOp) /\ NoKeyDown(prev))
           => pc = prev.pc + 2

\* LD V1, 0x02 (bytes 61 02, not 02 61) has just been executed at 0x200.
C11_Witness ==
    /\ Ticked
    /\ prev.ram[prev.pc] = \H61 /\ prev.ram[prev.pc + 1] = \H02
    /\ panic = NoPanic
    /\ v_reg[1] = 2
    /\ prev.pc = START_ADDR /\ pc = START_ADDR + 2

(* ------------------------------------------------------------------ *)
(* Two-register instructions: a program sets VX = a and VY = b and     *)
(* executes one instruction on them; the driver may press or release   *)
(* a key before a key skip.                                            *)
(* ------------------------------------------------------------------ *)
\* The word with nibbles d1, x, y, d4, and the word with nibbles d1, x
\* and low byte nn.
OpXY(d1, x, y, d4) == d1 * 4096 + x * 256 + y * 16 + d4
OpXNN(d1, x, nn)   == d1 * 4096 + x * 256 + nn

EdgeBytes == { 0, 1, 2, 15, 16, 127, 128, 129, 254, 255 }
RegPairs  == { << 0, 1 >>, << 1, 1 >>, << 1, 15 >>, << 15, 2 >>, << 14, 0 >> }

\* ADD, SUB, SUBN, the four register and immediate skips (b is also the
\* immediate), the two key skips.
PairOps(x, y, b) ==
    { OpXY(8, x, y, 4), OpXY(8, x, y, 5), OpXY(8, x, y, 7),
      OpXY(5, x, y, 0), OpXY(9, x, y, 0),
      OpXNN(3, x, b), OpXNN(4, x, b),
      OpXNN(14, x, \H9E), OpXNN(14, x, \HA1) }

ProgPair(x, a, y, b, op) ==
    Bytes(<< OpXNN(6, x, a),     \* 200: VX = a
             OpXNN(6, y, b),     \* 202: VY = b
             op >>)              \* 204: the instruction

InitPair ==
    \E p \in RegPairs, a \in EdgeBytes, b \in EdgeBytes :
        \E op \in PairOps(p[1], p[2], b) :
            StartsAfter(ProgPair(p[1], a, p[2], b, op), 2)

\* A key event arrives before the key skip is executed.
PairKeypress ==
    /\ pc = START_ADDR + 4
    /\ IsSkipKey(OpAt(Machine))
    /\ last_call = "tick"
    /\ Keypress

PairTick == pc = START_ADDR + 4 /\ Tick

NextPair == PairKeypress \/ PairTick

SpecPair == InitPair /\ [][NextPair]_vars

(* ------------------------------------------------------------------ *)
(* C12: a skip (3XNN, 4XNN, 5XY0, 9XY0, EX9E, EXA1) executed at a      *)
(* leaves pc = a + 4 if its condition holds and a + 2 otherwise, and   *)
(* changes nothing but pc.                                             *)
(* ------------------------------------------------------------------ *)
C12_SkipFrame ==
    Ticked /\ IsSkip(LastOp)
        => /\ pc = prev.pc + (IF SkipHolds(prev, LastOp) THEN 4 ELSE 2)
           /\ Machine = [prev EXCEPT !.pc = pc]

(* ------------------------------------------------------------------ *)
(* One-register instructions: a program sets I, VY = 0x5A and VX = v   *)
(* for every byte v and executes one instruction on VX.                *)
(* ------------------------------------------------------------------ *)
UnaryPairs == { << 0, 1 >>, << 5, 5 >>, << 15, 3 >>, << 3, 15 >> }
IndexAddrs == { 768, 4093 }

\* LD F, LD B, SHR, SHL
UnaryOps(x, y) ==
    { OpXNN(15, x, \H29), OpXNN(15, x, \H33),
      OpXY(8, x, y, 6), OpXY(8, x, y, 14) }

IsFont(op)  == first_digit(op) = 15 /\ op % 256 = \H29
IsShr(op)   == first_digit(op) = 8 /\ fourth_digit(op) = 6
IsShl(op)   == first_digit(op) = 8 /\ fourth_digit(op) = 14

ProgUnary(nnn, x, v, y, op) ==
    Bytes(<< OpXNN(10, 0, 0) + nnn,   \* 200: I = nnn
             OpXNN(6, y, \H5A),       \* 202: VY = 0x5A
             OpXNN(6, x, v),          \* 204: VX = v
             op >>)                   \* 206: the instruction

\* I is varied for the instruction that writes at it.
InitUnary ==
    \E p \in UnaryPairs, v \in 0 .. U8 - 1, nnn \in IndexAddrs :
        \E op \in UnaryOps(p[1], p[2]) :
            /\ IsBcd(op) \/ nnn = 768
            /\ StartsAfter(ProgUnary(nnn, p[1], v, p[2], op), 3)

UnaryTick == pc = START_ADDR + 6 /\ Tick

NextUnary == UnaryTick

SpecUnary == InitUnary /\ [][NextUnary]_vars

(* ------------------------------------------------------------------ *)
(* C13: FX29 sets the index register to 5 * (VX mod 16), for every     *)
(* byte in VX: an address inside the font table [0, 80).               *)
(* ------------------------------------------------------------------ *)
C13_FontAddress ==
    Ticked /\ IsFont(LastOp)
        => /\ panic = NoPanic
           /\ i_reg = 5 * (prev.v_reg[LastX] % 16)
           /\ i_reg < FONTSET_SIZE

(* ------------------------------------------------------------------ *)
(* Bulk store and load: a program gives the sixteen registers sixteen  *)
(* different values, sets I and executes one bulk instruction.         *)
(* ------------------------------------------------------------------ *)
\* I in the font table, at the program itself, and 15 bytes before the
\* last byte of ram.
BulkAddrs == { 0, START_ADDR, RAM_SIZE - REGISTER_COUNT }

\* FX55, and the two words for the load: FX65 and FX66.
BulkOps(x) == { OpXNN(15, x, \H55), OpXNN(15, x, \H65), OpXNN(15, x, \H66) }

ProgBulk(nnn, op) ==
    Bytes([k \in 1 .. REGISTER_COUNT |-> OpXNN(6, k - 1, \HA0 + k - 1)]   \* Vk = 0xA0 + k
          \o << OpXNN(10, 0, 0) + nnn,                                   \* I = nnn
                op >>)                                                   \* the instruction

InitBulk ==
    \E nnn \in BulkAddrs, x \in 0 .. REGISTER_COUNT - 1 :
        \E op \in BulkOps(x) :
            StartsAfter(ProgBulk(nnn, op), REGISTER_COUNT + 1)

BulkTick == pc = START_ADDR + 2 * (REGISTER_COUNT + 1) /\ Tick

NextBulk == BulkTick

SpecBulk == InitBulk /\ [][NextBulk]_vars

(* ------------------------------------------------------------------ *)
(* C14: with I + x < 4096, FX55 sets ram[I + k] = Vk and FX65 sets     *)
(* Vk = ram[I + k] for k in 0..x and no other k; the registers above   *)
(* x, I and (for the store) the rest of ram are unchanged.             *)
(* ------------------------------------------------------------------ *)
C14_BulkStoreLoad ==
    /\ Ticked /\ IsStore(LastOp) /\ prev.i_reg + LastX < RAM_SIZE
          => Machine =
                [prev EXCEPT
                    !.pc  = prev.pc + 2,
                    !.ram = [a \in 0 .. RAM_SIZE - 1 |->
                                IF a >= prev.i_reg /\ a <= prev.i_reg + LastX
                                THEN prev.v_reg[a - prev.i_reg]
                                ELSE prev.ram[a]]]
    /\ Ticked /\ IsLoad65(LastOp) /\ prev.i_reg + LastX < RAM_SIZE
          => Machine =
                [prev EXCEPT
                    !.pc    = prev.pc + 2,
                    !.v_reg = [k \in 0 .. REGISTER_COUNT - 1 |->
                                  IF k <= LastX THEN prev.ram[prev.i_reg + k]
                                  ELSE prev.v_reg[k]]]

IsAdd(op)  == first_digit(op) = 8 /\ fourth_digit(op) = 4
IsSub(op)  == first_digit(op) = 8 /\ fourth_digit(op) = 5
IsSubn(op) == first_digit(op) = 8 /\ fourth_digit(op) = 7
LastY      == third_digit(LastOp)

\* Every register but those in the set keep holds what it held before.
OtherRegsKept(keep) ==
    \A k \in 0 .. REGISTER_COUNT - 1 : k \in keep \/ v_reg[k] = prev.v_reg[k]

(* ------------------------------------------------------------------ *)
(* C15: 8XY4 with a = VX and b = VY leaves VF = 1 if a + b >= 256 and  *)
(* 0 otherwise, VX = (a + b) mod 256 when x is not 0xF, and every      *)
(* other register as it was.                                           *)
(* ------------------------------------------------------------------ *)
C15_AddWithCarry ==
    Ticked /\ IsAdd(LastOp)
        => LET a == prev.v_reg[LastX]
               b == prev.v_reg[LastY]
           IN  /\ panic = NoPanic
               /\ v_reg[15] = IF a + b >= 256 THEN 1 ELSE 0
               /\ LastX # 15 => v_reg[LastX] = (a + b) % 256
               /\ OtherRegsKept({ LastX, 15 })

\* 255 + 2 in V0: V0 = 1 with the carry.
C15_Witness ==
    /\ Ticked /\ IsAdd(LastOp)
    /\ LastX = 0 /\ LastY = 1
    /\ prev.v_reg[0] = 255 /\ prev.v_reg[1] = 2
    /\ v_reg[0] = 1 /\ v_reg[1] = 2 /\ v_reg[15] = 1

(* ------------------------------------------------------------------ *)
(* C16: 8XY5 with a = VX and b = VY leaves VF = 1 if a >= b and 0      *)
(* otherwise, VX = (a - b) mod 256 when x is not 0xF, and every other  *)
(* register as it was.                                                 *)
(* ------------------------------------------------------------------ *)
C16_SubNoBorrow ==
    Ticked /\ IsSub(LastOp)
        => LET a == prev.v_reg[LastX]
               b == prev.v_reg[LastY]
           IN  /\ panic = NoPanic
               /\ v_reg[15] = IF a >= b THEN 1 ELSE 0
               /\ LastX # 15 => v_reg[LastX] = (a - b + 256) % 256
               /\ OtherRegsKept({ LastX, 15 })

\* 1 - 2 in V0: V0 = 255 with a borrow, so VF = 0.
C16_Witness ==
    /\ Ticked /\ IsSub(LastOp)
    /\ LastX = 0 /\ LastY = 1
    /\ prev.v_reg[0] = 1 /\ prev.v_reg[1] = 2
    /\ v_reg[0] = 255 /\ v_reg[1] = 2 /\ v_reg[15] = 0

(* ------------------------------------------------------------------ *)
(* C19: 8XY7 with x # y, neither 0xF, a = VX and b = VY leaves         *)
(* VX = (b - a) mod 256, VY = b and VF = 1 if b >= a, 0 otherwise.     *)
(* ------------------------------------------------------------------ *)
C19_ReversedSubtract ==
    Ticked /\ IsSubn(LastOp) /\ LastX # LastY /\ LastX # 15 /\ LastY # 15
        => LET a == prev.v_reg[LastX]
               b == prev.v_reg[LastY]
           IN  /\ panic = NoPanic
               /\ v_reg[LastX] = (b - a + 256) % 256
               /\ v_reg[LastY] = b
               /\ v_reg[15] = IF b >= a THEN 1 ELSE 0

(* ------------------------------------------------------------------ *)
(* C17: FX33 with v = VX and I + 2 < 4096 sets ram[I] = v div 100,     *)
(* ram[I + 1] = (v div 10) mod 10 and ram[I + 2] = v mod 10, and       *)
(* changes no other byte of ram, no register and not I.                *)
(* ------------------------------------------------------------------ *)
C17_BcdDigits ==
    Ticked /\ IsBcd(LastOp) /\ prev.i_reg + 2 < RAM_SIZE
        => LET v == prev.v_reg[LastX]
               i == prev.i_reg
           IN  Machine =
                  [prev EXCEPT
                      !.pc  = prev.pc + 2,
                      !.ram = [prev.ram EXCEPT ![i]     = v \div 100,
                                               ![i + 1] = (v \div 10) % 10,
                                               ![i + 2] = v % 10]]

\* 255 has been stored as 2, 5, 5 in the last three bytes of ram.
C17_Witness ==
    /\ Ticked /\ IsBcd(LastOp)
    /\ prev.v_reg[LastX] = 255
    /\ prev.i_reg = RAM_SIZE - 3
    /\ panic = NoPanic
    /\ ram[RAM_SIZE - 3] = 2 /\ ram[RAM_SIZE - 2] = 5 /\ ram[RAM_SIZE - 1] = 5

(* ------------------------------------------------------------------ *)
(* C18: 8XYE with v = VX leaves VF = bit 7 of v and VX = (2 * v) mod   *)
(* 256; 8XY6 leaves VF = bit 0 of v and VX = v div 2 (VX when x is not *)
(* 0xF); VY and every other register are as they were.                 *)
(* ------------------------------------------------------------------ *)
C18_ShiftByOne ==
    /\ Ticked /\ IsShl(LastOp)
          => LET v == prev.v_reg[LastX]
             IN  /\ panic = NoPanic
                 /\ v_reg[15] = v \div 128
                 /\ LastX # 15 => v_reg[LastX] = (2 * v) % 256
                 /\ OtherRegsKept({ LastX, 15 })
    /\ Ticked /\ IsShr(LastOp)
          => LET v == prev.v_reg[LastX]
             IN  /\ panic = NoPanic
                 /\ v_reg[15] = v % 2
                 /\ LastX # 15 => v_reg[LastX] = v \div 2
                 /\ OtherRegsKept({ LastX, 15 })

\* 0x81 in V0 shifted left: V0 = 0x02, VF = 1, V1 still 0x5A.
C18_Witness ==
    /\ Ticked /\ IsShl(LastOp)
    /\ LastX = 0 /\ LastY = 1
    /\ prev.v_reg[0] = \H81
    /\ v_reg[0] = 2 /\ v_reg[15] = 1 /\ v_reg[1] = \H5A

(* ------------------------------------------------------------------ *)
(* Construction: the machine the driver works on comes from new() or   *)
(* from the Default implementation.                                    *)
(* ------------------------------------------------------------------ *)
\* let mut chip8 = Emulator::default();
InitDefault ==
    /\ pc = default.pc
    /\ ram = default.ram
    /\ screen = default.screen
    /\ v_reg = default.v_reg
    /\ i_reg = default.i_reg
    /\ stack_ptr = default.stack_ptr
    /\ stack = default.stack
    /\ keys = default.keys
    /\ delay_timer = default.delay_timer
    /\ sound_timer = default.sound_timer
    /\ panic = default.panic
    /\ tone_signals = 0
    /\ loaded = FALSE
    /\ last_call = "default"
    /\ prev = default
    /\ call_log = << >>
    /\ matched = NoCall

InitAny == Init \/ InitDefault

SpecAny == InitAny /\ [][Next]_vars

(* ------------------------------------------------------------------ *)
(* C20: the machine that new(), Emulator::default() or reset() has     *)
(* just produced holds the glyph table in ram[0 .. 79] and zero in     *)
(* ram[80 .. 4095].                                                    *)
(* ------------------------------------------------------------------ *)
C20_FontAlwaysInstalled ==
    last_call \in { "new", "default", "reset" }
        => \A a \in 0 .. RAM_SIZE - 1 :
              ram[a] = IF a < FONTSET_SIZE THEN FONTSET[a + 1] ELSE 0

=============================================================================
